---- MODULE Spec2Model ----
(***************************************************************************)
(* A model of the repository-context pipeline of repo-explainer:           *)
(*   - GitHubTools.get_repo_context and the calls it awaits                *)
(*     (backend/github_tools.py), as a state machine with one action per   *)
(*     resumption of the coroutine (specification Spec);                    *)
(*   - _normalize_llm_path (backend/ai_service.py), as an operator over    *)
(*     character sequences (specification SpecNormalize);                   *)
(*   - format_github_tree_structure and its helpers                        *)
(*     (backend/github_tools.py), as operators over entry lists            *)
(*     (specification SpecTree).                                            *)
(* Strings that only matter by their size are modelled by their length.    *)
(***************************************************************************)
EXTENDS Integers, Sequences, FiniteSets, TLC

VARIABLES
    \* ---- get_repo_context (Spec) ----
    ref,            \* argument ref of get_repo_context ("None" when absent)
    github_token,   \* argument github_token of get_repo_context
    pc,             \* position of the get_repo_context coroutine
    requests,       \* HTTP requests sent so far, in order
    tree_ref,       \* local ref of fetch_directory_tree_with_depth
    tree_resp,      \* the response to the tree request
    tree_out,       \* how fetch_directory_tree_with_depth ended (return/raise)
    list_resp,      \* the response to the root listing request
    context_parts,  \* local context_parts
    total_chars,    \* local total_chars
    files_to_fetch, \* local files_to_fetch
    tasks,          \* the get_file_contents coroutines handed to gather
    completion,     \* indices of tasks in the order they completed
    gather_exc,     \* the exception asyncio.gather propagated, if any
    ret,            \* the pair get_repo_context returned
    \* ---- _normalize_llm_path (SpecNormalize) ----
    n_path, n_prefix, n_once, n_twice, n_pc,
    \* ---- format_github_tree_structure (SpecTree) ----
    t_entries, t_max_depth, t_lines, t_pc,
    \* ---- parse_paths_from_response (SpecParse) ----
    p_text,         \* argument text, the sequence of its characters
    p_fenced,       \* whether text is a fenced code block
    p_body,         \* the lines between the fences (the lines of text if not fenced)
    p_out,          \* parse_paths_from_response(text)
    p_inner,        \* parse_paths_from_response(the text between the fences)
    p_pc,
    \* ---- backend/ai_service.py (SpecAi) ----
    AI_PROVIDER, api_keys, a_provider, a_constructed, a_calls,
    \* ---- explain_repo route of backend/main.py (SpecRoute) ----
    r_pc, r_context, r_explain, r_raised, r_response,
    \* ---- lifespan, scheduler and cleanup_expired_cache of backend/main.py (SpecLifespan) ----
    l_pc, scheduler, now, rows, c_before, c_now, c_outcome

mainVars == <<ref, github_token, pc, requests, tree_ref, tree_resp, tree_out, list_resp,
              context_parts, total_chars, files_to_fetch, tasks, completion,
              gather_exc, ret>>
normVars == <<n_path, n_prefix, n_once, n_twice, n_pc>>
treeVars == <<t_entries, t_max_depth, t_lines, t_pc>>
parseVars == <<p_text, p_fenced, p_body, p_out, p_inner, p_pc>>
aiVars == <<AI_PROVIDER, api_keys, a_provider, a_constructed, a_calls>>
routeVars == <<r_pc, r_context, r_explain, r_raised, r_response>>
appVars == <<l_pc, scheduler, now, rows, c_before, c_now, c_outcome>>
vars == <<mainVars, normVars, treeVars, parseVars, aiVars, routeVars, appVars>>

\* What the actions of one specification leave alone: the variables of the
\* others.
offMainVars == <<normVars, treeVars, parseVars, aiVars, routeVars, appVars>>
offNormVars == <<mainVars, treeVars, parseVars, aiVars, routeVars, appVars>>
offTreeVars == <<mainVars, normVars, parseVars, aiVars, routeVars, appVars>>
offParseVars == <<mainVars, normVars, treeVars, aiVars, routeVars, appVars>>
offAiVars == <<mainVars, normVars, treeVars, parseVars, routeVars, appVars>>
offRouteVars == <<mainVars, normVars, treeVars, parseVars, aiVars, appVars>>
offAppVars == <<mainVars, normVars, treeVars, parseVars, aiVars, routeVars>>

None == "None"

Range(s) == {s[i] : i \in 1..Len(s)}

NoDup(s) == \A i, j \in 1..Len(s) : i # j => s[i] # s[j]

(***************************************************************************)
(* Program constants of GitHubTools.                                        *)
(***************************************************************************)
IMPORTANT_FILES_dup ==
    << "README.md", "package.json", "requirements.txt", "go.mod", "Cargo.toml",
       "pom.xml", "build.gradle", "setup.py", "pyproject.toml", ".env.example",
       "Dockerfile", "docker-compose.yml", "Makefile", "LICENSE", "CONTRIBUTING.md",
       "package-lock.json", "yarn.lock", "Pipfile", "README.md" >>

IMPORTANT_FILES ==
    << "README.md", "package.json", "requirements.txt", "go.mod", "Cargo.toml",
       "pom.xml", "build.gradle", "setup.py", "pyproject.toml", ".env.example",
       "Dockerfile", "docker-compose.yml", "Makefile", "LICENSE", "CONTRIBUTING.md",
       "package-lock.json", "yarn.lock", "Pipfile" >>

MAX_TOTAL_CHARS == 100000

\* len(tree) > 10000 and tree[:10000]
TreeCropChars == 10000

\* len("(Tree content cropped to 10k characters)\n")
TreeCropNoticeLen == 41

\* len("(Files content cropped to 100k characters)\n")
FilesCropNoticeLen == 43

\* len of the FILE: section frame around filename and content:
\* 48 "=", "\n", "FILE: ", "\n", 48 "=", "\n", and the closing "\n"
FileFrameLen == 106

(***************************************************************************)
(* Bounds and the inputs drawn from them.                                   *)
(***************************************************************************)
\* Largest number of entries in the root directory listing.
MaxRootEntries == 3

Refs == {None, "dev"}
Tokens == {None, "tok"}

\* Entries the root listing may hold: three IMPORTANT_FILES names, one other
\* file and one directory.
RootEntries ==
    { [path |-> "LICENSE",      type |-> "file"],
      [path |-> "README.md",    type |-> "file"],
      [path |-> "main.py",      type |-> "file"],
      [path |-> "package.json", type |-> "file"],
      [path |-> "src",          type |-> "dir"] }

\* The same paths in Python's string order (sorted()).
SortedPaths == << "LICENSE", "README.md", "main.py", "package.json", "src" >>

\* Lengths of the file bodies the provider may return.
ContentLens == {0, 40000, 60001}

\* Lengths of the rendered tree of a non-empty repository.
TreeStrLens == {200, 10001}

(***************************************************************************)
(* Values.                                                                  *)
(***************************************************************************)
\* GitHubApiError(message, status_code, details); str(e) is its message.
GitHubApiError(message, status_code, details) ==
    [kind |-> "exc", message |-> message, status_code |-> status_code,
     details |-> details]

\* TypeError raised by  [] + "\n"
TypeErrorListStr ==
    [kind |-> "exc", message |-> "can only concatenate list (not \"str\") to list",
     status_code |-> None, details |-> None]

NoExc == [kind |-> "none", message |-> "", status_code |-> None, details |-> None]

\* A rendered tree string: its length, whether it carries the
\* "(Repository is empty or tree data not available)" annotation, whether
\* get_repo_context cropped it.
TreeStr(len, marker) == [kind |-> "str", len |-> len, marker |-> marker, cropped |-> FALSE]

\* The [] that fetch_directory_tree_with_depth returns on a 409.
EmptyList == [kind |-> "list", len |-> 0, marker |-> FALSE, cropped |-> FALSE]

NoTree == [kind |-> "none", len |-> 0, marker |-> FALSE, cropped |-> FALSE]

\* len("Directory structure:\n└── o/r/\n    (Repository is empty or tree data not available)")
\* for the repository o/r
EmptyTreeStrLen == 82

\* File bodies: the text the provider holds for a path, by its length.
Text(path, len) == [kind |-> "text", of |-> path, len |-> len]
NoneContent == [kind |-> "none", of |-> "", len |-> 0]

\* How a callee ended: a returned value or a raised exception.
Returned(tree) == [kind |-> "return", tree |-> tree, exc |-> NoExc]
Raised(exc) == [kind |-> "raise", tree |-> NoTree, exc |-> exc]
NotCalled == [kind |-> "none", tree |-> NoTree, exc |-> NoExc]

\* The (content, success) pair of get_file_contents, or its exception.
FileReturned(content, success) ==
    [kind |-> "return", content |-> content, success |-> success, exc |-> NoExc]
FileRaised(exc) ==
    [kind |-> "raise", content |-> NoneContent, success |-> FALSE, exc |-> exc]
FilePending == [kind |-> "none", content |-> NoneContent, success |-> FALSE, exc |-> NoExc]

\* Parts of the context document.
TreePart(tree) ==
    [kind |-> "tree", filename |-> "", content |-> NoneContent, tree |-> tree,
     len |-> tree.len + 1]
FilePart(filename, content) ==
    [kind |-> "file", filename |-> filename, content |-> content, tree |-> NoTree,
     len |-> FileFrameLen + Len(filename) + content.len]
NoticePart ==
    [kind |-> "notice", filename |-> "", content |-> NoneContent, tree |-> NoTree,
     len |-> FilesCropNoticeLen]

\* The pair get_repo_context returns: "\n".join(context_parts) or a message.
Document(parts) == [kind |-> "doc", ok |-> TRUE, parts |-> parts, text |-> ""]
Message(text, ok) == [kind |-> "msg", ok |-> ok, parts |-> <<>>, text |-> text]
NotReturned == [kind |-> "none", ok |-> FALSE, parts |-> <<>>, text |-> ""]

RECURSIVE SumLen(_)
SumLen(parts) == IF parts = <<>> THEN 0 ELSE Head(parts).len + SumLen(Tail(parts))

\* len("\n".join(parts))
JoinedLen(parts) == IF parts = <<>> THEN 0 ELSE SumLen(parts) + (Len(parts) - 1)

Request(api, path, r, token) == [api |-> api, path |-> path, ref |-> r, token |-> token]

(***************************************************************************)
(* fetch_directory_tree_with_depth                                          *)
(***************************************************************************)
\* The ref and token get_repo_context hands to fetch_directory_tree_with_depth:
\* the call names repo, http_client and depth only, so both take their default.
TreeCallRef(r) == None
TreeCallToken(token) == None

\* Outcomes of GET /repos/{owner}/{repo}.
BranchOutcomes == {"ok", "http_error", "request_error"}

\* The exception of a failed default-branch lookup: status_code is that of the
\* response when the error carries one.
DefaultBranchError(outcome) ==
    GitHubApiError("Failed to fetch default branch for o/r",
                   IF outcome = "http_error" THEN "404" ELSE None, None)

\* Responses of GET /repos/{owner}/{repo}/git/trees/{ref}?recursive=1.  A 200
\* response is given by what format_github_tree_structure renders from it.
TreeResponses ==
    {[status |-> st, rendered |-> NoTree] :
        st \in {"404", "409", "500", "request_error", "bad_json"}}
    \cup {[status |-> "200", rendered |-> t] :
            t \in {TreeStr(EmptyTreeStrLen, TRUE)} \cup {TreeStr(n, FALSE) : n \in TreeStrLens}}

NoTreeResponse == [status |-> "none", rendered |-> NoTree]

\* except Exception as e: raise GitHubApiError(message=... str(e))
UnexpectedTreeError(e) ==
    GitHubApiError("An unexpected error occurred while fetching tree for o/r: " \o e.message,
                   None, None)

\* The try block of fetch_directory_tree_with_depth and its handlers.  The
\* GitHubApiError raised for a 404 is raised inside the try block and is an
\* Exception, so the last handler catches and rewraps it.
FetchTreeOutcome(resp) ==
    CASE resp.status = "404" ->
            Raised(UnexpectedTreeError(
                GitHubApiError("Tree or ref not found for o/r. Or repository is private/inaccessible.",
                               "404", "body")))
      [] resp.status = "409" -> Returned(EmptyList)
      [] resp.status = "500" ->
            Raised(GitHubApiError("GitHub API HTTP error fetching tree for o/r: 500", "500", "body"))
      [] resp.status = "request_error" ->
            Raised(GitHubApiError("HTTP request failed while fetching tree for o/r", None, None))
      [] resp.status = "bad_json" ->
            Raised(UnexpectedTreeError(GitHubApiError("Expecting value", None, None)))
      [] OTHER -> Returned(resp.rendered)

(***************************************************************************)
(* list_directory_files                                                     *)
(***************************************************************************)
ListReturned(files, is_none, success) ==
    [kind |-> "return", files |-> files, is_none |-> is_none, success |-> success,
     exc |-> NoExc]
ListRaised(exc) ==
    [kind |-> "raise", files |-> <<>>, is_none |-> TRUE, success |-> FALSE, exc |-> exc]

\* The directory listings of at most n entries; the API lists a directory
\* in the order of the names.
Listings(n) ==
    {SelectSeq([i \in 1..Len(SortedPaths) |->
                    CHOOSE e \in RootEntries : e.path = SortedPaths[i]],
               LAMBDA e : e \in chosen) :
        chosen \in {c \in SUBSET RootEntries : Cardinality(c) <= n}}

\* Responses of GET /repos/{owner}/{repo}/contents/ : a directory listing (a
\* JSON list), a JSON object, or an error.
ListResponses ==
    {[status |-> st, data |-> <<>>] : st \in {"404", "500", "request_error", "not_a_list"}}
    \cup {[status |-> "200", data |-> d] : d \in Listings(MaxRootEntries)}

NoListResponse == [status |-> "none", data |-> <<>>]

\* for content in data: if content["type"] == "file": file_list.append(content["path"])
RECURSIVE FileList(_)
FileList(data) ==
    IF data = <<>> THEN <<>>
    ELSE IF Head(data).type = "file"
         THEN <<Head(data).path>> \o FileList(Tail(data))
         ELSE FileList(Tail(data))

ListDirectoryFiles(resp) ==
    CASE resp.status = "404" -> ListReturned(<<>>, TRUE, FALSE)
      [] resp.status = "500" ->
            ListRaised(GitHubApiError("GitHub API error: 500", "500", "body"))
      [] resp.status = "request_error" ->
            ListRaised(GitHubApiError("Failed to process contents: request error", None, None))
      [] resp.status = "not_a_list" -> ListReturned(<<>>, TRUE, FALSE)
      [] OTHER -> ListReturned(FileList(resp.data), FALSE, TRUE)

(***************************************************************************)
(* get_file_contents                                                        *)
(***************************************************************************)
\* Responses of GET /repos/{owner}/{repo}/contents/{path}.
FileResponses(path) ==
    {[status |-> st, text |-> NoneContent] : st \in {"404", "500", "request_error"}}
    \cup {[status |-> "200", text |-> Text(path, n)] : n \in ContentLens}

NoResponse == [status |-> "none", text |-> NoneContent]

\* get_file_contents without the 404 branch's early return: the body of the
\* 404 response is returned as the file's text.
GetFileContentsNotFoundAsText(resp) ==
    CASE resp.status = "404" -> FileReturned([kind |-> "text", of |-> "", len |-> 9], TRUE)
      [] resp.status = "500" ->
            FileRaised(GitHubApiError("GitHub API error: 500", "500", "body"))
      [] resp.status = "request_error" ->
            FileRaised(GitHubApiError("Failed to process contents: request error", None, None))
      [] OTHER -> FileReturned(resp.text, TRUE)

GetFileContents(resp) ==
    CASE resp.status = "404" -> FileReturned(NoneContent, FALSE)
      [] resp.status = "500" ->
            FileRaised(GitHubApiError("GitHub API error: 500", "500", "body"))
      [] resp.status = "request_error" ->
            FileRaised(GitHubApiError("Failed to process contents: request error", None, None))
      [] OTHER -> FileReturned(resp.text, TRUE)

(***************************************************************************)
(* get_repo_context: the pure parts                                         *)
(***************************************************************************)
\* if len(tree) > 10000: tree = "(Tree content cropped ...)\n" + tree[:10000]
CropTree(tree) ==
    IF tree.len > TreeCropChars
    THEN [tree EXCEPT !.len = TreeCropNoticeLen + TreeCropChars, !.cropped = TRUE]
    ELSE tree

\* for filename in sorted(files_at_root): if filename in cls.IMPORTANT_FILES
FilesToFetchSorted(files_at_root) ==
    SelectSeq(SortedPaths,
              LAMBDA f : f \in files_at_root /\ f \in Range(IMPORTANT_FILES))

\* for filename in cls.IMPORTANT_FILES: if filename in files_at_root:
\*     files_to_fetch.append(filename)
FilesToFetch(files_at_root) ==
    SelectSeq(IMPORTANT_FILES, LAMBDA f : f \in files_at_root)

\* The results asyncio.gather would return if it listed them as they arrived.
GatherResultsByArrival(ts, order) ==
    [i \in 1..Len(ts) |-> ts[order[i]].outcome]

\* results = await asyncio.gather(*tasks): one result per awaitable, in the
\* order of the awaitables.
GatherResults(ts, order) ==
    [i \in 1..Len(ts) |-> ts[i].outcome]

\* Python truth of  content  in  "if success and content".
Truthy(content) == content.kind = "text" /\ content.len > 0

\* The loop without its break: after the notice the iteration goes on and
\* appends the file's section.
RECURSIVE CombineNoBreak(_, _, _, _, _)
CombineNoBreak(files, results, i, parts, total) ==
    IF i > Len(files) \/ i > Len(results) THEN [parts |-> parts, total |-> total]
    ELSE IF results[i].success /\ Truthy(results[i].content)
         THEN CombineNoBreak(files, results, i + 1,
                             Append(IF total > MAX_TOTAL_CHARS
                                    THEN Append(parts, NoticePart) ELSE parts,
                                    FilePart(files[i], results[i].content)),
                             total + results[i].content.len)
         ELSE CombineNoBreak(files, results, i + 1, parts, total)

\* The loop "for filename, (content, success) in zip(files_to_fetch, results)":
\* the context_parts and total_chars it ends with.
RECURSIVE Combine(_, _, _, _, _)
Combine(files, results, i, parts, total) ==
    IF i > Len(files) \/ i > Len(results) THEN [parts |-> parts, total |-> total]
    ELSE IF results[i].success /\ Truthy(results[i].content)
         THEN IF total > MAX_TOTAL_CHARS
              THEN [parts |-> Append(parts, NoticePart), total |-> total]
              ELSE Combine(files, results, i + 1,
                           Append(parts, FilePart(files[i], results[i].content)),
                           total + results[i].content.len)
         ELSE Combine(files, results, i + 1, parts, total)

(***************************************************************************)
(* get_repo_context as a coroutine: one action per resumption.              *)
(***************************************************************************)
NormIdle ==
    /\ n_path = <<>> /\ n_prefix = <<>> /\ n_once = <<>> /\ n_twice = <<>>
    /\ n_pc = "idle"

TreeIdle ==
    /\ t_entries = <<>> /\ t_max_depth = None /\ t_lines = <<>> /\ t_pc = "idle"

ParseIdle ==
    /\ p_text = <<>> /\ p_fenced = FALSE /\ p_body = <<>> /\ p_out = <<>>
    /\ p_inner = <<>> /\ p_pc = "idle"

MainIdle ==
    /\ ref = None /\ github_token = None /\ pc = "idle" /\ requests = <<>>
    /\ tree_ref = None /\ tree_out = NotCalled /\ context_parts = <<>>
    /\ tree_resp = NoTreeResponse /\ list_resp = NoListResponse
    /\ total_chars = 0 /\ files_to_fetch = <<>> /\ tasks = <<>>
    /\ completion = <<>> /\ gather_exc = NoExc /\ ret = NotReturned

AiIdle ==
    /\ AI_PROVIDER = None /\ api_keys = {} /\ a_provider = None
    /\ a_constructed = 0 /\ a_calls = <<>>

RouteIdle ==
    /\ r_pc = "idle" /\ r_context = None /\ r_explain = None /\ r_raised = None
    /\ r_response = None

AppIdle ==
    /\ l_pc = "idle" /\ scheduler = None /\ now = 0 /\ rows = {}
    /\ c_before = {} /\ c_now = 0 /\ c_outcome = "none"

\* Every specification but the one named is idle.
IdleExcept(group) ==
    /\ group = "main" \/ MainIdle
    /\ group = "norm" \/ NormIdle
    /\ group = "tree" \/ TreeIdle
    /\ group = "parse" \/ ParseIdle
    /\ group = "ai" \/ AiIdle
    /\ group = "route" \/ RouteIdle
    /\ group = "app" \/ AppIdle

Init ==
    /\ ref \in Refs
    /\ github_token \in Tokens
    /\ pc = "start"
    /\ requests = <<>>
    /\ tree_ref = None
    /\ tree_resp = NoTreeResponse
    /\ tree_out = NotCalled
    /\ list_resp = NoListResponse
    /\ context_parts = <<>>
    /\ total_chars = 0
    /\ files_to_fetch = <<>>
    /\ tasks = <<>>
    /\ completion = <<>>
    /\ gather_exc = NoExc
    /\ ret = NotReturned
    /\ IdleExcept("main")

\* Without the handler of lines 458-460 the exception leaves get_repo_context.
ReturnErrorUncaught(exc) ==
    /\ ret' = [kind |-> "raised", ok |-> FALSE, parts |-> <<>>, text |-> exc.message]
    /\ pc' = "done"

\* except Exception as e: return str(e), False
ReturnError(exc) ==
    /\ ret' = Message(exc.message, FALSE)
    /\ pc' = "done"

\* Step 1 of fetch_directory_tree_with_depth: with no ref, look up the default
\* branch; a failure raises GitHubApiError, which get_repo_context catches.
ResolveRef ==
    /\ pc = "start"
    /\ IF TreeCallRef(ref) = None
       THEN /\ requests' = Append(requests,
                                  Request("repo", "", None, TreeCallToken(github_token)))
            /\ \E outcome \in BranchOutcomes :
                 IF outcome = "ok"
                 THEN /\ tree_ref' = "main"
                      /\ pc' = "tree"
                      /\ UNCHANGED <<tree_out, ret>>
                 ELSE /\ tree_ref' = None
                      /\ tree_out' = Raised(DefaultBranchError(outcome))
                      /\ ReturnError(DefaultBranchError(outcome))
       ELSE /\ tree_ref' = TreeCallRef(ref)
            /\ pc' = "tree"
            /\ UNCHANGED <<requests, tree_out, ret>>
    /\ UNCHANGED <<ref, github_token, tree_resp, list_resp, context_parts, total_chars,
                   files_to_fetch, tasks, completion, gather_exc, offMainVars>>

\* Step 2 of fetch_directory_tree_with_depth and lines 418-421 of
\* get_repo_context: crop the tree, append tree + "\n", count it.
FetchTree ==
    /\ pc = "tree"
    /\ requests' = Append(requests,
                          Request("tree", "", tree_ref, TreeCallToken(github_token)))
    /\ \E resp \in TreeResponses :
         LET out == FetchTreeOutcome(resp) IN
         /\ tree_resp' = resp
         /\ tree_out' = out
         /\ IF out.kind = "raise"
            THEN /\ ReturnError(out.exc)
                 /\ UNCHANGED <<context_parts, total_chars>>
            ELSE IF out.tree.kind = "list"
                 THEN \* len([]) is 0; [] + "\n" raises TypeError
                      /\ ReturnError(TypeErrorListStr)
                      /\ UNCHANGED <<context_parts, total_chars>>
                 ELSE /\ context_parts' = <<TreePart(CropTree(out.tree))>>
                      /\ total_chars' = total_chars + CropTree(out.tree).len
                      /\ pc' = "list"
                      /\ UNCHANGED ret
    /\ UNCHANGED <<ref, github_token, tree_ref, list_resp, files_to_fetch, tasks,
                   completion, gather_exc, offMainVars>>

\* The coroutine objects of lines 435-438, one per file to fetch.
NewTasks(files) ==
    [i \in 1..Len(files) |->
        [path |-> files[i], ref |-> ref, token |-> github_token,
         status |-> "created", response |-> NoResponse, outcome |-> FilePending]]

\* The test of line 427 without its second half: an empty list passes.
RootListingFailedUnlessEmpty(result) == ~result.success

\* if not result[1] or not result[0]
RootListingFailed(result) ==
    ~result.success \/ result.is_none \/ result.files = <<>>

\* Lines 426-441: list the root, pick the important files, queue the fetches.
ListFiles ==
    /\ pc = "list"
    /\ requests' = Append(requests, Request("contents", "", ref, github_token))
    /\ \E resp \in ListResponses :
         LET result == ListDirectoryFiles(resp)
             fetch == FilesToFetch(Range(result.files))
         IN
         /\ list_resp' = resp
         /\ IF result.kind = "raise"
            THEN /\ ReturnError(result.exc)
                 /\ UNCHANGED <<files_to_fetch, tasks>>
            ELSE IF RootListingFailed(result)
                 THEN /\ ret' = Message("Error with getting files at root directory", FALSE)
                      /\ pc' = "done"
                      /\ UNCHANGED <<files_to_fetch, tasks>>
                 ELSE IF fetch = <<>>
                      THEN /\ ret' = Message("No key documentation files found in root.", TRUE)
                           /\ pc' = "done"
                           /\ UNCHANGED <<files_to_fetch, tasks>>
                      ELSE /\ files_to_fetch' = fetch
                           /\ tasks' = NewTasks(fetch)
                           /\ pc' = "gather"
                           /\ UNCHANGED ret
    /\ UNCHANGED <<ref, github_token, tree_ref, tree_resp, tree_out, context_parts,
                   total_chars, completion, gather_exc, offMainVars>>

RECURSIVE FileRequests(_)
FileRequests(ts) ==
    IF ts = <<>> THEN <<>>
    ELSE <<Request("contents", Head(ts).path, Head(ts).ref, Head(ts).token)>>
         \o FileRequests(Tail(ts))

\* asyncio.gather(*tasks): every coroutine becomes a scheduled task; when the
\* caller suspends, the loop runs each one up to its HTTP request.
Gather ==
    /\ pc = "gather"
    /\ tasks' = [i \in 1..Len(tasks) |-> [tasks[i] EXCEPT !.status = "pending"]]
    /\ requests' = requests \o FileRequests(tasks)
    /\ pc' = "join"
    /\ UNCHANGED <<ref, github_token, tree_ref, tree_resp, tree_out, list_resp,
                   context_parts, total_chars, files_to_fetch, completion, gather_exc,
                   ret, offMainVars>>

\* One get_file_contents task receives its response and finishes.  The first
\* task to raise makes gather raise in the awaiting coroutine; the other
\* tasks are not cancelled and finish later.
FetchComplete(i) ==
    /\ tasks[i].status = "pending"
    /\ \E resp \in FileResponses(tasks[i].path) :
         LET out == GetFileContents(resp) IN
         /\ tasks' = [tasks EXCEPT ![i] = [@ EXCEPT !.status = "done",
                                                     !.response = resp,
                                                     !.outcome = out]]
         /\ gather_exc' = IF out.kind = "raise" /\ gather_exc.kind = "none" /\ pc = "join"
                          THEN out.exc
                          ELSE gather_exc
    /\ completion' = Append(completion, i)
    /\ UNCHANGED <<ref, github_token, pc, requests, tree_ref, tree_resp, tree_out,
                   list_resp, context_parts, total_chars, files_to_fetch, ret,
                   offMainVars>>

\* await asyncio.gather(...) raises: lines 458-460.
JoinRaise ==
    /\ pc = "join"
    /\ gather_exc.kind = "exc"
    /\ ReturnError(gather_exc)
    /\ UNCHANGED <<ref, github_token, requests, tree_ref, tree_resp, tree_out,
                   list_resp, context_parts, total_chars, files_to_fetch, tasks,
                   completion, gather_exc, offMainVars>>

\* await asyncio.gather(...) returns: lines 446-456.
JoinCombine ==
    /\ pc = "join"
    /\ gather_exc.kind = "none"
    /\ \A i \in 1..Len(tasks) : tasks[i].status = "done"
    /\ LET combined == Combine(files_to_fetch, GatherResults(tasks, completion), 1,
                               context_parts, total_chars)
       IN  /\ context_parts' = combined.parts
           /\ total_chars' = combined.total
           /\ ret' = Document(combined.parts)
    /\ pc' = "done"
    /\ UNCHANGED <<ref, github_token, requests, tree_ref, tree_resp, tree_out,
                   list_resp, files_to_fetch, tasks, completion, gather_exc,
                   offMainVars>>

Next ==
    \/ ResolveRef
    \/ FetchTree
    \/ ListFiles
    \/ Gather
    \/ \E i \in 1..Len(tasks) : FetchComplete(i)
    \/ JoinRaise
    \/ JoinCombine

Spec == Init /\ [][Next]_vars

(***************************************************************************)
(* Properties of get_repo_context.                                          *)
(***************************************************************************)
ReturnedDocument == pc = "done" /\ ret.kind = "doc"

\* The filenames of the FILE: sections of a document, in document order.
RECURSIVE SectionNames(_)
SectionNames(parts) ==
    IF parts = <<>> THEN <<>>
    ELSE IF Head(parts).kind = "file"
         THEN <<Head(parts).filename>> \o SectionNames(Tail(parts))
         ELSE SectionNames(Tail(parts))

\* The paths whose fetch was answered 200, in fetch-list order.
RECURSIVE FoundNames(_)
FoundNames(ts) ==
    IF ts = <<>> THEN <<>>
    ELSE IF Head(ts).response.status = "200"
         THEN <<Head(ts).path>> \o FoundNames(Tail(ts))
         ELSE FoundNames(Tail(ts))

\* The characters of the bodies answered 200.
RECURSIVE FoundChars(_)
FoundChars(ts) ==
    IF ts = <<>> THEN 0
    ELSE (IF Head(ts).response.status = "200" THEN Head(ts).response.text.len ELSE 0)
         + FoundChars(Tail(ts))

\* Position of a name in a sequence (0 when absent).
IndexOf(seq, x) ==
    IF \E i \in 1..Len(seq) : seq[i] = x
    THEN CHOOSE i \in 1..Len(seq) : seq[i] = x /\ \A j \in 1..(i - 1) : seq[j] # x
    ELSE 0

\* C1: the document get_repo_context returns never holds more than
\* MAX_TOTAL_CHARS characters, and the running total of counted characters
\* never passes the budget (a file that would pass it is left out).
C1_DocumentWithinBudget ==
    ReturnedDocument =>
        /\ JoinedLen(ret.parts) <= MAX_TOTAL_CHARS
        /\ total_chars <= MAX_TOTAL_CHARS

\* C2: when the tree fetch is answered 409, get_repo_context returns ok=True
\* and a document whose tree carries the empty-repository annotation.
C2_ConflictYieldsEmptyRepoDocument ==
    (pc = "done" /\ tree_out.kind = "return" /\ tree_out.tree.kind = "list") =>
        /\ ret.ok
        /\ ret.kind = "doc"
        /\ \E k \in 1..Len(ret.parts) :
             ret.parts[k].kind = "tree" /\ ret.parts[k].tree.marker

\* Every fetch of the batch was answered 404 or 200, each 200 with a non-empty
\* body, and the tree and the bodies together fit the budget.
PartialFetchCase ==
    /\ pc = "done"
    /\ tasks # <<>>
    /\ \A i \in 1..Len(tasks) :
         /\ tasks[i].status = "done"
         /\ tasks[i].response.status \in {"404", "200"}
         /\ tasks[i].response.status = "200" => tasks[i].response.text.len > 0
    /\ context_parts # <<>>
    /\ context_parts[1].tree.len + FoundChars(tasks) <= MAX_TOTAL_CHARS

\* C4: when some fetches are answered 404 and the others 200 with content
\* within budget, get_repo_context returns ok=True and the document's FILE:
\* sections are exactly the found files, one each, none for a 404.
C4_NotFoundFilesSkipped ==
    PartialFetchCase =>
        /\ ret.ok
        /\ ret.kind = "doc"
        /\ SectionNames(ret.parts) = FoundNames(tasks)

C4_Witness ==
    /\ PartialFetchCase
    /\ Len(tasks) = 3
    /\ \E i \in 1..Len(tasks) : tasks[i].response.status = "404"
    /\ Len(FoundNames(tasks)) = 2
    /\ Len(SectionNames(ret.parts)) = 2

\* C5: whatever the order in which the fetches complete, the FILE: sections
\* follow the order of the fetch list, and each section holds the body that
\* was fetched for its own path.
C5_SectionsInFetchOrder ==
    ReturnedDocument =>
        /\ \A a, b \in 1..Len(SectionNames(ret.parts)) :
             a < b => IndexOf(files_to_fetch, SectionNames(ret.parts)[a])
                        < IndexOf(files_to_fetch, SectionNames(ret.parts)[b])
        /\ \A k \in 1..Len(ret.parts) :
             ret.parts[k].kind = "file" =>
                /\ IndexOf(files_to_fetch, ret.parts[k].filename) > 0
                /\ ret.parts[k].content.of = ret.parts[k].filename

C5_Witness ==
    /\ ReturnedDocument
    /\ Len(SectionNames(ret.parts)) = 3
    /\ completion = <<3, 1, 2>>

\* C6: a file fetch that fails with an error other than 404 does not abort
\* the assembly: get_repo_context still returns ok=True with a document.
C6_FetchErrorDoesNotAbort ==
    (pc = "done" /\ \E i \in 1..Len(tasks) : tasks[i].outcome.kind = "raise") =>
        ret.ok /\ ret.kind = "doc"

\* C7: no fetch completes before all are started, and get_repo_context goes
\* past the join only when every fetch of the batch has completed.
C7_JoinWaitsForEveryFetch ==
    /\ (\E i \in 1..Len(tasks) : tasks[i].status = "done") =>
            \A j \in 1..Len(tasks) : tasks[j].status # "created"
    /\ pc = "done" => \A i \in 1..Len(tasks) : tasks[i].status = "done"

C15_TreeNotFoundKeepsStatus ==
    tree_resp.status = "404" =>
        /\ tree_out.kind = "raise"
        /\ tree_out.exc.status_code = "404"
        /\ tree_out.exc.details = "body"

\* The root listing is missing (404, or not a directory listing) or holds no
\* file.
RootListingMissing ==
    \/ list_resp.status \in {"404", "not_a_list"}
    \/ list_resp.status = "200" /\ FileList(list_resp.data) = <<>>

\* C17: when the root listing is missing or holds no file, get_repo_context
\* returns ok=False and no file is fetched.
C17_RootListingFailureIsHard ==
    RootListingMissing =>
        /\ pc = "done"
        /\ ret.kind = "msg" /\ ~ret.ok
        /\ tasks = <<>>
        /\ \A k \in 1..Len(requests) :
             requests[k].api = "contents" => requests[k].path = ""

\* A listing that holds a directory and no file.
C17_Witness ==
    /\ list_resp.status = "200"
    /\ Len(list_resp.data) = 1
    /\ list_resp.data[1].type = "dir"
    /\ pc = "done"
    /\ ret = Message("Error with getting files at root directory", FALSE)

\* C18: no FILE: section of the returned document holds more than 30,000
\* characters of its file's content.
C18_FileSectionsWithinPerFileCap ==
    ReturnedDocument =>
        \A k \in 1..Len(ret.parts) :
            ret.parts[k].kind = "file" => ret.parts[k].content.len <= 30000

\* C21: the document holds at most one truncation notice, and the notice,
\* when there is one, is the last part: no FILE: section follows it.
C21_NoticeOnceAndLast ==
    /\ \A k \in 1..Len(context_parts) :
         context_parts[k].kind = "notice" => k = Len(context_parts)
    /\ ReturnedDocument => ret.parts = context_parts

\* Three files fetched; the budget is passed after the second, so the third
\* is replaced by the notice.
C21_Witness ==
    /\ ReturnedDocument
    /\ Len(tasks) = 3
    /\ \A i \in 1..3 : tasks[i].outcome.success /\ Truthy(tasks[i].outcome.content)
    /\ Len(ret.parts) = 4
    /\ ret.parts[4] = NoticePart
    /\ Len(SectionNames(ret.parts)) = 2

\* The paths whose fetch returned ok=True, in fetch-list order.
RECURSIVE OkNames(_)
OkNames(ts) ==
    IF ts = <<>> THEN <<>>
    ELSE IF Head(ts).outcome.kind = "return" /\ Head(ts).outcome.success
         THEN <<Head(ts).path>> \o OkNames(Tail(ts))
         ELSE OkNames(Tail(ts))

\* C25: in a document the budget did not cut (no truncation notice), every
\* file fetched with ok=True has its FILE: section, a file whose content is
\* the empty string included, and only the fetches with ok=False have none.
C25_EveryFetchedFileHasSection ==
    (ReturnedDocument /\ \A k \in 1..Len(ret.parts) : ret.parts[k].kind # "notice") =>
        SectionNames(ret.parts) = OkNames(tasks)

\* C26: when get_repo_context is given a ref, the default branch is never
\* looked up, and the tree is requested for that ref and with the token
\* given, as the root listing and the file fetches are.
C26_GivenRefUsedThroughout ==
    ref # None =>
        \A k \in 1..Len(requests) :
            /\ requests[k].api # "repo"
            /\ requests[k].ref = ref
            /\ requests[k].token = github_token

\* The exceptions raised inside the try block of get_repo_context so far: by
\* the default-branch lookup or the tree fetch, by tree + "\n" for a tree that
\* is a list, by the root listing, and by the file fetches.
StepExceptions ==
    (IF tree_out.kind = "raise" THEN {tree_out.exc} ELSE {})
    \cup (IF tree_out.kind = "return" /\ tree_out.tree.kind = "list"
          THEN {TypeErrorListStr} ELSE {})
    \cup (IF ListDirectoryFiles(list_resp).kind = "raise" /\ list_resp.status # "none"
          THEN {ListDirectoryFiles(list_resp).exc} ELSE {})
    \cup {tasks[i].outcome.exc : i \in {j \in 1..Len(tasks) : tasks[j].outcome.kind = "raise"}}

\* C27: get_repo_context ends by returning, never by raising: when a step
\* raised, it returns the pair (message of an exception raised, False), and
\* it returns ok=True only when no step raised.
C27_FailuresReturnedNotRaised ==
    /\ ret.kind # "raised"
    /\ pc = "done" =>
          /\ ret.kind \in {"doc", "msg"}
          /\ StepExceptions # {} =>
                /\ ~ret.ok
                /\ ret.kind = "msg"
                /\ \E exc \in StepExceptions : ret.text = exc.message
          /\ ret.ok => StepExceptions = {}

\* One file fetch raised while another returned its file: the message of the
\* exception is returned with ok=False.
C27_Witness ==
    /\ pc = "done"
    /\ Len(tasks) = 2
    /\ tasks[1].outcome.kind = "return" /\ tasks[1].outcome.success
    /\ tasks[2].outcome.kind = "raise"
    /\ ret = Message(tasks[2].outcome.exc.message, FALSE)

(***************************************************************************)
(* _normalize_llm_path (backend/ai_service.py).  A string is the sequence   *)
(* of its characters.                                                       *)
(***************************************************************************)
\* Longest path and longest repo prefix tried.
MaxPathLen == 5
MaxPrefixLen == 3

PathChars == {"a", "b", "/"}

Strings(n) == UNION {[1..k -> PathChars] : k \in 0..n}

\* s.rstrip("/")
RECURSIVE RStripSlash(_)
RStripSlash(s) ==
    IF s # <<>> /\ s[Len(s)] = "/" THEN RStripSlash(SubSeq(s, 1, Len(s) - 1)) ELSE s

\* s.startswith(prefix)
StartsWith(s, prefix) ==
    Len(prefix) <= Len(s) /\ SubSeq(s, 1, Len(prefix)) = prefix

\* while path.startswith(prefix_slash): path = path[len(prefix_slash):]
RECURSIVE StripPrefix(_, _)
StripPrefix(path, prefix_slash) ==
    IF StartsWith(path, prefix_slash)
    THEN StripPrefix(SubSeq(path, Len(prefix_slash) + 1, Len(path)), prefix_slash)
    ELSE path

\* s.split("/")
RECURSIVE SplitSlash(_)
SplitSlash(s) ==
    IF \E i \in 1..Len(s) : s[i] = "/"
    THEN LET i == CHOOSE i \in 1..Len(s) : s[i] = "/" /\ \A j \in 1..(i - 1) : s[j] # "/"
         IN  <<SubSeq(s, 1, i - 1)>> \o SplitSlash(SubSeq(s, i + 1, Len(s)))
    ELSE <<s>>

\* [p for p in parts if p]
NonEmptyParts(parts) == SelectSeq(parts, LAMBDA part : part # <<>>)

\* while len(parts) > 1 and parts[0] == parts[1]: del parts[1]
RECURSIVE CollapseHead(_)
CollapseHead(parts) ==
    IF Len(parts) > 1 /\ parts[1] = parts[2]
    THEN CollapseHead(<<parts[1]>> \o SubSeq(parts, 3, Len(parts)))
    ELSE parts

\* "/".join(parts)
RECURSIVE JoinSlash(_)
JoinSlash(parts) ==
    IF parts = <<>> THEN <<>>
    ELSE IF Len(parts) = 1 THEN parts[1]
         ELSE parts[1] \o <<"/">> \o JoinSlash(Tail(parts))

normalize_llm_path(path, repo_prefix) ==
    LET stripped == IF repo_prefix # <<>>
                    THEN StripPrefix(path, RStripSlash(repo_prefix) \o <<"/">>)
                    ELSE path
    IN  JoinSlash(CollapseHead(NonEmptyParts(SplitSlash(stripped))))

InitNormalize ==
    /\ n_path \in Strings(MaxPathLen)
    /\ n_prefix \in Strings(MaxPrefixLen)
    /\ n_once = <<>>
    /\ n_twice = <<>>
    /\ n_pc = "input"
    /\ IdleExcept("norm")

\* normalize(p, r)
NormalizeOnce ==
    /\ n_pc = "input"
    /\ n_once' = normalize_llm_path(n_path, n_prefix)
    /\ n_pc' = "once"
    /\ UNCHANGED <<n_path, n_prefix, n_twice, offNormVars>>

\* normalize(normalize(p, r), r)
NormalizeTwice ==
    /\ n_pc = "once"
    /\ n_twice' = normalize_llm_path(n_once, n_prefix)
    /\ n_pc' = "twice"
    /\ UNCHANGED <<n_path, n_prefix, n_once, offNormVars>>

NextNormalize == NormalizeOnce \/ NormalizeTwice

SpecNormalize == InitNormalize /\ [][NextNormalize]_vars

\* C3: normalizing an already normalized path, with the same prefix, changes
\* nothing.
C3_NormalizeIdempotent ==
    n_pc = "twice" => n_twice = n_once

(***************************************************************************)
(* format_github_tree_structure and its helpers (backend/github_tools.py).  *)
(* An entry's path is given as the list of its parts, item["path"].split    *)
(* ("/"); the nested dictionaries are the set of their nodes, each with the *)
(* list of keys that leads to it.                                           *)
(***************************************************************************)
\* Most entries in a flat tree list, deepest path, largest max_depth tried.
MaxEntries == 2
MaxPathDepth == 3
MaxDepthArg == 3

\* Names of files and directories, in Python's string order (sorted()).
SortedNames == << "a", "b" >>

TreeNames == Range(SortedNames)

\* Paths of tree entries: every path over TreeNames of one or two parts, the
\* paths below a/a up to MaxPathDepth parts, the empty path "" and a path
\* with a trailing slash "a/".
TreePaths ==
    UNION {[1..k -> TreeNames] : k \in 1..2}
    \cup {<<"a", "a">> \o q : q \in UNION {[1..k -> TreeNames] : k \in 1..(MaxPathDepth - 2)}}
    \cup { <<"">>, <<"a", "">> }

TreeEntries == {[parts |-> p, type |-> ty] : p \in TreePaths, ty \in {"blob", "tree"}}

\* max_depth: None or an integer
NoDepth == <<>>
Depth(k) == <<k>>

DepthArgs == {NoDepth} \cup {Depth(k) : k \in (0 - 1)..MaxDepthArg}

IsPrefixOf(q, path) == Len(q) <= Len(path) /\ SubSeq(path, 1, Len(q)) = q

Node(path, type, children) == [path |-> path, type |-> type, children |-> children]

HasNode(tree, q) == \E n \in tree : n.path = q

NodeAt(tree, q) == CHOOSE n \in tree : n.path = q

\* current_level[part] = node: the key's former value, with everything below
\* it, is replaced.
Assign(tree, node) ==
    {n \in tree : ~IsPrefixOf(node.path, n.path)} \cup {node}

\* if "children" not in current_level[part]: current_level[part]["children"] = {}
EnsureChildren(tree, q) ==
    IF NodeAt(tree, q).children THEN tree
    ELSE (tree \ {NodeAt(tree, q)}) \cup {Node(q, NodeAt(tree, q).type, TRUE)}

\* The inner loop of _build_hierarchical_tree over the parts of one item,
\* from part i on, with current_level the dictionary reached by the keys cur.
RECURSIVE WalkParts(_, _, _, _, _)
WalkParts(tree, parts, i, cur, type) ==
    IF i > Len(parts) THEN tree
    ELSE IF parts[i] = "" THEN WalkParts(tree, parts, i + 1, cur, type)
    ELSE LET q == Append(cur, parts[i]) IN
         IF i = Len(parts)
         THEN Assign(tree, Node(q, type, FALSE))
         ELSE LET made == IF ~HasNode(tree, q)
                          THEN Assign(tree, Node(q, "tree", TRUE))
                          ELSE IF NodeAt(tree, q).type \notin {"tree", "dir"}
                               THEN Assign(tree, Node(q, "tree", TRUE))
                               ELSE tree
              IN  WalkParts(EnsureChildren(made, q), parts, i + 1, q, type)

\* _build_hierarchical_tree: the outer loop over the flat list.
RECURSIVE BuildFrom(_, _)
BuildFrom(tree, flat_tree_list) ==
    IF flat_tree_list = <<>> THEN tree
    ELSE BuildFrom(WalkParts(tree, Head(flat_tree_list).parts, 1, <<>>,
                             Head(flat_tree_list).type),
                   Tail(flat_tree_list))

build_hierarchical_tree(flat_tree_list) == BuildFrom({}, flat_tree_list)

\* sorted(tree_node.keys()) for the dictionary reached by the keys cur
SortedKeys(tree, cur) ==
    SelectSeq(SortedNames, LAMBDA name : HasNode(tree, Append(cur, name)))

\* A line of the rendering.  An entry line is current_prefix (a list of
\* four-character indents), a connector, the name and "/" for a directory.
HeaderLine == [kind |-> "header", prefix |-> <<>>, last |-> FALSE, name |-> "", slash |-> FALSE]
RootLine == [kind |-> "root", prefix |-> <<>>, last |-> TRUE, name |-> "o/r", slash |-> TRUE]
EmptyNoteLine == [kind |-> "empty_note", prefix |-> <<"blank">>, last |-> FALSE, name |-> "", slash |-> FALSE]
EntryLine(prefix, last, name, slash) ==
    [kind |-> "entry", prefix |-> prefix, last |-> last, name |-> name, slash |-> slash]

\* The depth test one level late: current_depth > max_depth + 1.
DepthReachedOffByOne(current_depth, max_depth) ==
    max_depth # NoDepth /\ current_depth > max_depth[1] + 1

\* if max_depth is not None and current_depth >= max_depth: return
DepthReached(current_depth, max_depth) ==
    max_depth # NoDepth /\ current_depth >= max_depth[1]

\* _format_tree_recursively: the lines appended for the dictionary reached by
\* the keys cur, from its i-th sorted key on.
RECURSIVE FormatFrom(_, _, _, _, _, _)
FormatFrom(tree, cur, i, current_prefix, current_depth, max_depth) ==
    LET names == SortedKeys(tree, cur) IN
    IF DepthReached(current_depth, max_depth) \/ i > Len(names) THEN <<>>
    ELSE LET item_data == NodeAt(tree, Append(cur, names[i]))
             is_last_child == (i = Len(names))
             is_directory == (item_data.type = "tree")
             has_children == item_data.children
                             /\ SortedKeys(tree, item_data.path) # <<>>
             below == IF is_directory /\ has_children
                      THEN FormatFrom(tree, item_data.path, 1,
                                      Append(current_prefix,
                                             IF is_last_child THEN "blank" ELSE "bar"),
                                      current_depth + 1, max_depth)
                      ELSE <<>>
         IN  <<EntryLine(current_prefix, is_last_child, names[i], is_directory)>>
             \o below
             \o FormatFrom(tree, cur, i + 1, current_prefix, current_depth, max_depth)

format_tree_recursively(tree, current_prefix, current_depth, max_depth) ==
    FormatFrom(tree, <<>>, 1, current_prefix, current_depth, max_depth)

\* effective_max_depth_for_children
EffectiveMaxDepth(max_depth) ==
    IF max_depth # NoDepth THEN Depth(max_depth[1] - 1) ELSE NoDepth

\* format_github_tree_structure: the lines it joins with "\n".
format_github_tree_structure(flat_tree_list, max_depth) ==
    IF flat_tree_list = <<>> THEN <<HeaderLine, RootLine, EmptyNoteLine>>
    ELSE IF max_depth # NoDepth /\ max_depth[1] < 0 THEN <<HeaderLine, RootLine>>
    ELSE <<HeaderLine, RootLine>>
         \o format_tree_recursively(build_hierarchical_tree(flat_tree_list),
                                    <<"blank">>, 0, EffectiveMaxDepth(max_depth))

InitTree ==
    /\ t_entries \in UNION {[1..k -> TreeEntries] : k \in 0..MaxEntries}
    /\ t_max_depth \in DepthArgs
    /\ t_lines = <<>>
    /\ t_pc = "input"
    /\ IdleExcept("tree")

FormatTree ==
    /\ t_pc = "input"
    /\ t_lines' = format_github_tree_structure(t_entries, t_max_depth)
    /\ t_pc' = "formatted"
    /\ UNCHANGED <<t_entries, t_max_depth, offTreeVars>>

NextTree == FormatTree

SpecTree == InitTree /\ [][NextTree]_vars

\* The deepest nesting, in levels below the root, of the entries given.
EntryLevel(entry) == Len(SelectSeq(entry.parts, LAMBDA part : part # ""))

\* C8: for a non-empty entry list and max_depth = N >= 0, no line is emitted
\* for an entry deeper than N levels below the root, and with N = 0 the
\* rendering is the root label line with no child line.
C8_DepthNeverExceeded ==
    (t_pc = "formatted" /\ t_entries # <<>> /\ t_max_depth # NoDepth
        /\ t_max_depth[1] >= 0) =>
        /\ \A k \in 1..Len(t_lines) :
             t_lines[k].kind = "entry" => Len(t_lines[k].prefix) <= t_max_depth[1]
        /\ t_max_depth[1] = 0 => t_lines = <<HeaderLine, RootLine>>
        /\ t_lines[2] = RootLine

C8_Witness ==
    /\ t_pc = "formatted"
    /\ t_max_depth = Depth(2)
    /\ \E k \in 1..Len(t_entries) : EntryLevel(t_entries[k]) = 3
    /\ \E k \in 1..Len(t_lines) : t_lines[k].kind = "entry"

\* The orders in which the entries of a list can be given.
Reorderings(entries) ==
    {[i \in 1..Len(entries) |-> entries[f[i]]] :
        f \in {g \in [1..Len(entries) -> 1..Len(entries)] :
                  \A i, j \in 1..Len(entries) : i # j => g[i] # g[j]}}

\* An entry list as a git tree gives it, up to order: no path twice, no
\* empty part, and a listed path that lies above another is a directory.
GitTreeEntries(entries) ==
    /\ \A i, j \in 1..Len(entries) : i # j => entries[i].parts # entries[j].parts
    /\ \A i \in 1..Len(entries) : "" \notin Range(entries[i].parts)
    /\ \A i, j \in 1..Len(entries) :
         (i # j /\ IsPrefixOf(entries[i].parts, entries[j].parts)) =>
            entries[i].type = "tree"

\* C22: the rendering does not depend on the order of the entries: every
\* reordering of the entry list of a git tree, a directory listed after
\* the entries inside it included, renders the same lines.
C22_RenderingIgnoresEntryOrder ==
    (t_pc = "formatted" /\ GitTreeEntries(t_entries)) =>
        \A reordered \in Reorderings(t_entries) :
            format_github_tree_structure(reordered, t_max_depth) = t_lines

\* Every directory is listed before the entries inside it, as the API lists
\* a tree.
ParentsFirst(entries) ==
    \A i, j \in 1..Len(entries) :
        (i < j) => ~IsPrefixOf(entries[j].parts, entries[i].parts)

\* C23: with max_depth = N >= 1 every entry nested at most N levels below
\* the root has its line, at its level: max_depth = 1 renders every direct
\* child of the root.
C23_DepthCountsFromRootChildren ==
    (t_pc = "formatted" /\ GitTreeEntries(t_entries) /\ ParentsFirst(t_entries)
        /\ t_max_depth # NoDepth /\ t_max_depth[1] >= 1) =>
        /\ t_lines[2] = RootLine
        /\ \A k \in 1..Len(t_entries) :
             EntryLevel(t_entries[k]) <= t_max_depth[1] =>
                \E n \in 1..Len(t_lines) :
                    /\ t_lines[n].kind = "entry"
                    /\ t_lines[n].name = t_entries[k].parts[Len(t_entries[k].parts)]
                    /\ Len(t_lines[n].prefix) = EntryLevel(t_entries[k])

(***************************************************************************)
(* parse_paths_from_response (backend/prompts.py).  A string is the         *)
(* sequence of its characters; "\n" is the only line break and " ", "\t"   *)
(* and "\n" the only white space of the alphabet.                           *)
(***************************************************************************)
\* Most lines between the fences.
MaxBodyLines == 4

\* \w and \s over the alphabet
WordChars == {"a", "b", "c", "d", "e", "p", "y"}
WhiteSpace == {" ", "\t", "\n"}

\* The backquote character, written BQ.
Backquote == "BQ"

Fence == <<Backquote, Backquote, Backquote>>

\* Lines a response may hold: a path, a bulleted path ("- b", "* c"), a blank
\* line, a comment, a line of prose, a markup line, an indented path and a
\* line with a tab inside.
ResponseLines ==
    { <<"a">>, <<"-", " ", "b">>, <<>>, <<"#", " ", "c">>, <<"a", " ", "b">>,
      <<"<", "c">>, <<" ", "d", " ">>, <<"*", " ", "c">>, <<"e", "\t", "y">> }

\* How a response is wrapped: the language tag after the opening fence (for
\* a fenced one) and the white space before and after the text.
Wrappings ==
    { [tag |-> <<>>, before |-> <<>>, after |-> <<>>],
      [tag |-> <<"p", "y">>, before |-> <<" ">>, after |-> <<"\n">>] }

\* s.lstrip(), s.rstrip(), s.strip()
RECURSIVE LStrip(_)
LStrip(s) == IF s # <<>> /\ s[1] \in WhiteSpace THEN LStrip(Tail(s)) ELSE s

RECURSIVE RStrip(_)
RStrip(s) ==
    IF s # <<>> /\ s[Len(s)] \in WhiteSpace THEN RStrip(SubSeq(s, 1, Len(s) - 1)) ELSE s

Strip(s) == LStrip(RStrip(s))

\* The longest prefix of s made of characters of set.
RECURSIVE Span(_, _)
Span(s, set) == IF s # <<>> /\ s[1] \in set THEN 1 + Span(Tail(s), set) ELSE 0

\* re.sub(r"^```\w*\n?", "", raw)
SubOpeningFence(raw) ==
    IF StartsWith(raw, Fence)
    THEN LET after_fence == SubSeq(raw, 4, Len(raw))
             after_tag == SubSeq(after_fence, Span(after_fence, WordChars) + 1,
                                 Len(after_fence))
         IN  IF after_tag # <<>> /\ after_tag[1] = "\n" THEN Tail(after_tag)
             ELSE after_tag
    ELSE raw

\* The closing-fence substitution left out: raw is kept as it is.
SubClosingFenceKept(raw) == raw

\* re.sub(r"\n?```\s*$", "", raw): the match is the fence that only white
\* space follows, with the line break before it if there is one.
SubClosingFence(raw) ==
    LET ends == {j \in 1..Len(raw) :
                    /\ StartsWith(SubSeq(raw, j, Len(raw)), Fence)
                    /\ \A k \in (j + 3)..Len(raw) : raw[k] \in WhiteSpace}
    IN  IF ends = {} THEN raw
        ELSE LET j == CHOOSE j \in ends : TRUE
                 start == IF j > 1 /\ raw[j - 1] = "\n" THEN j - 1 ELSE j
             IN  SubSeq(raw, 1, start - 1)

\* s.splitlines()
RECURSIVE SplitLines(_)
SplitLines(s) ==
    IF s = <<>> THEN <<>>
    ELSE IF \E i \in 1..Len(s) : s[i] = "\n"
         THEN LET i == CHOOSE i \in 1..Len(s) :
                            s[i] = "\n" /\ \A j \in 1..(i - 1) : s[j] # "\n"
              IN  <<SubSeq(s, 1, i - 1)>> \o SplitLines(SubSeq(s, i + 1, Len(s)))
         ELSE <<s>>

\* re.sub(r"^[\-\*]\s+", "", line)
SubBullet(line) ==
    IF Len(line) >= 2 /\ line[1] \in {"-", "*"} /\ line[2] \in WhiteSpace
    THEN SubSeq(line, 2 + Span(Tail(line), WhiteSpace), Len(line))
    ELSE line

\* The body of the loop "for line in raw.splitlines()": the paths appended
\* for one line (none or one).
PathOfLine(text_line) ==
    LET line == Strip(text_line) IN
    IF line = <<>> \/ line[1] = "#" \/ line[1] = "<" THEN <<>>
    ELSE LET path == Strip(SubBullet(line)) IN
         IF path # <<>> /\ " " \notin Range(path) THEN <<path>> ELSE <<>>

RECURSIVE PathsOfLines(_)
PathsOfLines(lines) ==
    IF lines = <<>> THEN <<>>
    ELSE PathOfLine(Head(lines)) \o PathsOfLines(Tail(lines))

parse_paths_from_response(text) ==
    IF text = <<>> \/ Strip(text) = <<>> THEN <<>>
    ELSE LET raw == Strip(text)
             unfenced == IF StartsWith(raw, Fence)
                         THEN SubClosingFence(SubOpeningFence(raw))
                         ELSE raw
         IN  PathsOfLines(SplitLines(unfenced))

\* The lines of a text, each ended by a line break.
RECURSIVE LinesText(_)
LinesText(lines) ==
    IF lines = <<>> THEN <<>>
    ELSE Head(lines) \o <<"\n">> \o LinesText(Tail(lines))

\* A fenced code block: the opening fence with its tag, the lines, the
\* closing fence.
FencedText(tag, lines) == Fence \o tag \o <<"\n">> \o LinesText(lines) \o Fence

ResponseBodies == UNION {[1..k -> ResponseLines] : k \in 0..MaxBodyLines}

InitParse ==
    /\ p_body \in ResponseBodies
    /\ p_fenced \in BOOLEAN
    /\ \E w \in Wrappings :
         p_text = w.before \o (IF p_fenced THEN FencedText(w.tag, p_body)
                               ELSE LinesText(p_body)) \o w.after
    /\ p_out = <<>>
    /\ p_inner = <<>>
    /\ p_pc = "input"
    /\ IdleExcept("parse")

\* parse_paths_from_response(text)
ParseText ==
    /\ p_pc = "input"
    /\ p_out' = parse_paths_from_response(p_text)
    /\ p_pc' = "parsed"
    /\ UNCHANGED <<p_text, p_fenced, p_body, p_inner, offParseVars>>

\* parse_paths_from_response(the text between the fences)
ParseBetweenFences ==
    /\ p_pc = "parsed"
    /\ p_inner' = parse_paths_from_response(LinesText(p_body))
    /\ p_pc' = "both"
    /\ UNCHANGED <<p_text, p_fenced, p_body, p_out, offParseVars>>

NextParse == ParseText \/ ParseBetweenFences

SpecParse == InitParse /\ [][NextParse]_vars

C24_PathsHoldNoWhiteSpace ==
    p_pc # "input" =>
        \A k \in 1..Len(p_out) :
            /\ p_out[k] # <<>>
            /\ Range(p_out[k]) \cap WhiteSpace = {}

(***************************************************************************)
(* backend/ai_service.py: the cached provider, get_files_to_explore and     *)
(* explain_repo, called by concurrent requests on one event loop.  A call   *)
(* runs without interruption up to its await of the provider's HTTP         *)
(* request, and again from the response to its return.                      *)
(***************************************************************************)
\* Most calls of get_files_to_explore and explain_repo in one process.
MaxCalls == 2

\* Values of env.AI_PROVIDER.
ProviderSettings == {"", "gemini", " Gemini ", "openai"}

\* (env.AI_PROVIDER or "claude").strip().lower()
ProviderName(setting) ==
    CASE setting = "" -> "claude"
      [] setting = " Gemini " -> "gemini"
      [] OTHER -> setting

\* The class _get_provider instantiates for a provider name.
ProviderClass(provider_name) ==
    IF provider_name = "gemini" THEN "GeminiProvider" ELSE "ClaudeProvider"

\* self._api_key = api_key or env.<KEY>: whether the class finds its key.
KeyOf(cls) == IF cls = "GeminiProvider" THEN "GEMINI_API_KEY" ELSE "ANTHROPIC_API_KEY"

\* A provider object; id tells one constructed object from another.
Provider(cls, id, has_key) ==
    [kind |-> "provider", cls |-> cls, id |-> id, has_key |-> has_key]
NoProvider == [kind |-> "none", cls |-> "", id |-> 0, has_key |-> FALSE]

\* _get_provider with the test of the cache left out.
ProviderCachedNever(p) == FALSE

\* if _provider is not None: return _provider
ProviderCached(p) == p # NoProvider

\* _get_provider: the handle returned, and _provider and the number of
\* objects constructed after the call.
get_provider(p, constructed, setting, keys) ==
    IF ProviderCached(p)
    THEN [handle |-> p, provider |-> p, constructed |-> constructed]
    ELSE LET cls == ProviderClass(ProviderName(setting))
             new == Provider(cls, constructed + 1, KeyOf(cls) \in keys)
         IN  [handle |-> new, provider |-> new, constructed |-> constructed + 1]

\* What the provider's call_llm gives back: the assistant text (chars for the
\* files-to-explore prompt, text for the explanation prompt), None, or an
\* exception of the SDK.
LlmText(chars, text) == [kind |-> "text", chars |-> chars, text |-> text]
LlmNone == [kind |-> "none", chars |-> <<>>, text |-> ""]
LlmError == [kind |-> "error", chars |-> <<>>, text |-> "provider error"]
LlmPending == [kind |-> "pending", chars |-> <<>>, text |-> ""]

\* Responses to the files-to-explore prompt with no usable path: empty,
\* blank, prose.
UnusableTexts == { <<>>, <<" ">>, <<"a", " ", "b">> }

\* Responses to the files-to-explore prompt.
ExploreTexts ==
    UnusableTexts
    \cup { <<"a", "\n", "-", " ", "a", "\n", "b", "/", "a">>,
           <<"a", "/", "a", "\n", "/">>,
           Fence \o <<"\n", "b", "\n">> \o Fence }

LlmResponses(op) ==
    {LlmNone, LlmError}
    \cup (IF op = "explore" THEN {LlmText(t, "") : t \in ExploreTexts}
          ELSE {LlmText(<<>>, "## 1. What is this repo?")})

\* What a call returned: a list of paths (get_files_to_explore) or the pair
\* (text, ok) (explain_repo); or the exception it raised.
ExploreReturned(paths) == [kind |-> "return", paths |-> paths, text |-> "", ok |-> TRUE]
ExplainReturned(text, ok) == [kind |-> "return", paths |-> <<>>, text |-> text, ok |-> ok]
CallRaised(text) == [kind |-> "raise", paths |-> <<>>, text |-> text, ok |-> FALSE]
NoResult == [kind |-> "none", paths |-> <<>>, text |-> "", ok |-> FALSE]

\* RuntimeError raised by call_llm when the provider has no key
NotConfigured(cls) ==
    IF cls = "GeminiProvider"
    THEN "GEMINI_API_KEY is not set but Gemini provider is selected"
    ELSE "ANTHROPIC_API_KEY is not set but Claude provider is selected"

\* The loop of get_files_to_explore over raw_paths: normalize, drop the empty
\* and the already seen.
RECURSIVE CleanPaths(_, _, _)
CleanPaths(raw_paths, repo_prefix, cleaned) ==
    IF raw_paths = <<>> THEN cleaned
    ELSE LET norm == normalize_llm_path(Head(raw_paths), repo_prefix) IN
         IF norm = <<>> \/ norm \in Range(cleaned)
         THEN CleanPaths(Tail(raw_paths), repo_prefix, cleaned)
         ELSE CleanPaths(Tail(raw_paths), repo_prefix, Append(cleaned, norm))

\* The handler of get_files_to_explore with the exception passed on.
ExploreOnExceptionRaised(message) == CallRaised(message)

\* except Exception as e: ... return []
ExploreOnException(message) == ExploreReturned(<<>>)

\* get_files_to_explore from the response of call_llm on.
ExploreResult(response, repo_prefix) ==
    IF response.kind = "error" THEN ExploreOnException(response.text)
    ELSE LET raw_paths == IF response.kind = "none" THEN <<>>
                          ELSE parse_paths_from_response(response.chars)
         IN  IF raw_paths = <<>> THEN ExploreReturned(<<>>)
             ELSE ExploreReturned(CleanPaths(raw_paths, repo_prefix, <<>>))

\* explain_repo from the response of call_llm on.
ExplainResult(response) ==
    IF response.kind = "error" THEN ExplainReturned(response.text, FALSE)
    ELSE ExplainReturned(response.text, TRUE)

\* A call of get_files_to_explore or explain_repo.
Call(op, repo_prefix, callback, call_pc, handle, response, result) ==
    [op |-> op, repo_prefix |-> repo_prefix, callback |-> callback, pc |-> call_pc,
     handle |-> handle, response |-> response, result |-> result]

InitAi ==
    /\ AI_PROVIDER \in ProviderSettings
    /\ api_keys \in SUBSET {"ANTHROPIC_API_KEY", "GEMINI_API_KEY"}
    /\ a_provider = NoProvider
    /\ a_constructed = 0
    /\ a_calls = <<>>
    /\ IdleExcept("ai")

\* get_files_to_explore up to "await provider.call_llm(...)": the prompt is
\* built, the provider looked up, and call_llm raises at once without a key.
GetFilesToExplore ==
    /\ Len(a_calls) < MaxCalls
    /\ \E repo_prefix \in {<<>>, <<"a">>} :
         LET got == get_provider(a_provider, a_constructed, AI_PROVIDER, api_keys) IN
         /\ a_provider' = got.provider
         /\ a_constructed' = got.constructed
         /\ a_calls' = Append(a_calls,
                IF got.handle.has_key
                THEN Call("explore", repo_prefix, "none", "awaiting", got.handle,
                          LlmPending, NoResult)
                ELSE Call("explore", repo_prefix, "none", "done", got.handle,
                          LlmPending, ExploreOnException(NotConfigured(got.handle.cls))))
    /\ UNCHANGED <<AI_PROVIDER, api_keys, offAiVars>>

\* explain_repo up to "await provider.call_llm(...)": the status callback is
\* called inside the try block, before the provider is looked up.
ExplainRepo ==
    /\ Len(a_calls) < MaxCalls
    /\ \E callback \in {"none", "returns", "raises"} :
         IF callback = "raises"
         THEN /\ a_calls' = Append(a_calls,
                     Call("explain", <<>>, callback, "done", NoProvider, LlmPending,
                          ExplainReturned("callback failed", FALSE)))
              /\ UNCHANGED <<a_provider, a_constructed>>
         ELSE LET got == get_provider(a_provider, a_constructed, AI_PROVIDER, api_keys) IN
              /\ a_provider' = got.provider
              /\ a_constructed' = got.constructed
              /\ a_calls' = Append(a_calls,
                     IF got.handle.has_key
                     THEN Call("explain", <<>>, callback, "awaiting", got.handle,
                               LlmPending, NoResult)
                     ELSE Call("explain", <<>>, callback, "done", got.handle, LlmPending,
                               ExplainReturned(NotConfigured(got.handle.cls), FALSE)))
    /\ UNCHANGED <<AI_PROVIDER, api_keys, offAiVars>>

\* The provider's request of one call completes and the call runs to its end.
LlmResponds(i) ==
    /\ a_calls[i].pc = "awaiting"
    /\ \E response \in LlmResponses(a_calls[i].op) :
         a_calls' = [a_calls EXCEPT ![i] =
            [@ EXCEPT !.pc = "done",
                      !.response = response,
                      !.result = IF a_calls[i].op = "explore"
                                 THEN ExploreResult(response, a_calls[i].repo_prefix)
                                 ELSE ExplainResult(response)]]
    /\ UNCHANGED <<AI_PROVIDER, api_keys, a_provider, a_constructed, offAiVars>>

NextAi ==
    \/ GetFilesToExplore
    \/ ExplainRepo
    \/ \E i \in 1..Len(a_calls) : LlmResponds(i)

SpecAi == InitAi /\ [][NextAi]_vars

\* C12: whatever the interleaving of the calls, at most one provider object
\* is ever constructed, every call that looked the provider up holds that one
\* object, and _provider, once set, is never assigned again.
C12_ProviderConstructedOnce ==
    /\ [](/\ a_constructed <= 1
          /\ \A i \in 1..Len(a_calls) :
               a_calls[i].handle.kind = "provider" =>
                    a_calls[i].handle = a_provider /\ a_calls[i].handle.id = 1)
    /\ [][a_provider.kind = "provider" => a_provider' = a_provider]_vars

\* Two calls in flight at once, both holding the one provider.
C12_Witness ==
    /\ Len(a_calls) = 2
    /\ a_calls[1].pc = "awaiting" /\ a_calls[2].pc = "awaiting"
    /\ a_calls[1].op # a_calls[2].op
    /\ a_calls[1].handle = a_provider /\ a_calls[2].handle = a_provider
    /\ a_constructed = 1

\* The suggestion step of a call failed: no key, an SDK error, no text, or a
\* text with no usable path.
SuggestionFailed(call) ==
    \/ call.handle.kind = "provider" /\ ~call.handle.has_key
    \/ call.response.kind \in {"error", "none"}
    \/ call.response.kind = "text" /\ call.response.chars \in UnusableTexts

\* C13: get_files_to_explore never raises, and when the suggestion step
\* fails it returns the empty list.
C13_SuggestionFailureAbsorbed ==
    \A i \in 1..Len(a_calls) :
        (a_calls[i].op = "explore" /\ a_calls[i].pc = "done") =>
            /\ a_calls[i].result.kind = "return"
            /\ SuggestionFailed(a_calls[i]) => a_calls[i].result.paths = <<>>

\* A call ended by an SDK error and one ended by a missing key, both with [].
C13_Witness ==
    /\ Len(a_calls) = 2
    /\ a_calls[1].op = "explore" /\ a_calls[1].response = LlmError
    /\ a_calls[1].result = ExploreReturned(<<>>)
    /\ a_calls[2].op = "explore" /\ a_calls[2].response.kind = "text"
    /\ a_calls[2].response.chars = <<"a", " ", "b">>
    /\ a_calls[2].result = ExploreReturned(<<>>)

\* C14: a status callback that raises changes nothing: explain_repo still
\* looks the provider up and calls it, and returns the provider's text with
\* ok=True.
C14_CallbackFailureIgnored ==
    \A i \in 1..Len(a_calls) :
        (a_calls[i].op = "explain" /\ a_calls[i].callback = "raises"
            /\ a_calls[i].pc = "done") =>
            /\ a_calls[i].handle.kind = "provider"
            /\ a_calls[i].response.kind = "text" =>
                    a_calls[i].result = ExplainReturned(a_calls[i].response.text, TRUE)

(***************************************************************************)
(* backend/main.py: _user_facing_error and the route GET /{owner}/{repo}.   *)
(* A message is the sequence of its words (a word may be a fixed phrase),   *)
(* joined by single spaces.                                                  *)
(***************************************************************************)
\* Most words in an error message.
MaxMsgWords == 3

MsgWords ==
    {"prompt is", "too long", "token", "Connection", "failed", "rate limit",
     "Rate Limit", "429", "boom"}

Messages == UNION {[1..k -> MsgWords] : k \in 0..MaxMsgWords}

\* word.lower()
Lower(word) ==
    CASE word = "Connection" -> "connection"
      [] word = "Rate Limit" -> "rate limit"
      [] word = "Failed" -> "failed"
      [] OTHER -> word

LowerMsg(msg) == [i \in 1..Len(msg) |-> Lower(msg[i])]

\* phrase in msg
Contains(msg, phrase) ==
    \E i \in 1..(Len(msg) - Len(phrase) + 1) :
        SubSeq(msg, i, i + Len(phrase) - 1) = phrase

\* A text shown to the caller: one of the fixed texts of main.py, or a
\* message passed through.
FixedText(text) == [kind |-> "fixed", text |-> text, words |-> <<>>]
RawText(msg) == [kind |-> "raw", text |-> "", words |-> msg]

user_facing_error(msg) ==
    IF msg = <<>> THEN FixedText("Something went wrong. Please try again.")
    ELSE LET msg_lower == LowerMsg(msg) IN
         IF Contains(msg_lower, <<"prompt is", "too long">>)
            \/ (Contains(msg_lower, <<"too long">>) /\ Contains(msg_lower, <<"token">>))
         THEN FixedText("This repository has too much content to analyze")
         ELSE IF Contains(msg_lower, <<"connection">>) /\ Contains(msg_lower, <<"failed">>)
         THEN FixedText("Could not reach the AI service")
         ELSE IF Contains(msg_lower, <<"rate limit">>) \/ Contains(msg, <<"429">>)
         THEN FixedText("Rate limit exceeded. Please try again later.")
         ELSE RawText(msg)

\* explanation or "Failed to generate explanation"
ExplanationOrDefault(msg) ==
    IF msg = <<>> THEN <<"Failed", "to generate explanation">> ELSE msg

\* What a step of the handler produced.
StepReturned(ok, words) == [kind |-> "return", ok |-> ok, words |-> words]
StepRaised == [kind |-> "raise", ok |-> FALSE, words |-> <<>>]
StepNone == [kind |-> "none", ok |-> FALSE, words |-> <<>>]

\* HTTPException(status_code, detail), and the response the caller receives.
HttpError(status_code, detail) ==
    [kind |-> "error", status_code |-> status_code, detail |-> detail]
ModelResponse == [kind |-> "ok", status_code |-> 200, detail |-> FixedText("")]
NoHttp == [kind |-> "none", status_code |-> 0, detail |-> FixedText("")]

\* except httpx.HTTPStatusError as e: the detail for e.response.status_code.
RepoCheckError(status_code) ==
    HttpError(IF status_code < 500 THEN status_code ELSE 500,
              FixedText(CASE status_code = 403 -> "Repository is private or access is forbidden."
                          [] status_code = 404 -> "Repository not found."
                          [] status_code = 429 -> "Too many requests to GitHub."
                          [] OTHER -> "Error accessing repository"))

\* except Exception as e: whatever was raised inside the try block, an
\* HTTPException included, is answered with this.
InternalError ==
    HttpError(500, FixedText("An error occurred internally on the server"))

InitRoute ==
    /\ r_pc = "validate"
    /\ r_context = StepNone
    /\ r_explain = StepNone
    /\ r_raised = NoHttp
    /\ r_response = NoHttp
    /\ IdleExcept("route")

\* res = await client.get(github.com/owner/repo); res.raise_for_status()
ValidateRepo ==
    /\ r_pc = "validate"
    /\ \E outcome \in {"ok", "403", "404", "429", "502", "request_error"} :
         CASE outcome = "ok" ->
                /\ r_pc' = "context"
                /\ UNCHANGED r_response
           [] outcome = "request_error" ->
                /\ r_pc' = "done"
                /\ r_response' = InternalError
           [] outcome = "403" -> r_pc' = "done" /\ r_response' = RepoCheckError(403)
           [] outcome = "404" -> r_pc' = "done" /\ r_response' = RepoCheckError(404)
           [] outcome = "429" -> r_pc' = "done" /\ r_response' = RepoCheckError(429)
           [] OTHER -> r_pc' = "done" /\ r_response' = RepoCheckError(502)
    /\ UNCHANGED <<r_context, r_explain, r_raised, offRouteVars>>

\* repo_content, success = await github.get_repo_context(repo_info); a
\* failure raises HTTPException inside the try block.
FetchContext ==
    /\ r_pc = "context"
    /\ \E out \in {StepReturned(TRUE, <<>>), StepReturned(FALSE, <<>>), StepRaised} :
         /\ r_context' = out
         /\ IF out.kind = "return" /\ out.ok
            THEN /\ r_pc' = "explain"
                 /\ UNCHANGED <<r_raised, r_response>>
            ELSE /\ r_pc' = "done"
                 /\ r_raised' = IF out.kind = "return"
                                THEN HttpError(500,
                                        FixedText("Failed to fetch repository context"))
                                ELSE r_raised
                 /\ r_response' = InternalError
    /\ UNCHANGED <<r_explain, offRouteVars>>

\* explanation, success = await ClaudeService.explain_repo(...); a failure
\* raises HTTPException(500, _user_facing_error(...)) inside the try block.
Explain ==
    /\ r_pc = "explain"
    /\ \E ok \in BOOLEAN, msg \in Messages :
         /\ r_explain' = StepReturned(ok, msg)
         /\ IF ok
            THEN /\ r_response' = ModelResponse
                 /\ UNCHANGED r_raised
            ELSE /\ r_raised' = HttpError(500, user_facing_error(ExplanationOrDefault(msg)))
                 /\ r_response' = InternalError
    /\ r_pc' = "done"
    /\ UNCHANGED <<r_context, offRouteVars>>

NextRoute == ValidateRepo \/ FetchContext \/ Explain

SpecRoute == InitRoute /\ [][NextRoute]_vars

\* C16: when the explanation fails, the detail of the response the caller
\* receives is what _user_facing_error gives for the error message: the
\* rewritten text of a known category, the message itself otherwise.
C16_UserFacingDetailReachesCaller ==
    (r_pc = "done" /\ r_explain.kind = "return" /\ ~r_explain.ok) =>
        /\ r_response.kind = "error"
        /\ r_response.detail = user_facing_error(ExplanationOrDefault(r_explain.words))

(***************************************************************************)
(* backend/main.py: the lifespan of the application, its scheduler, and     *)
(* cleanup_expired_cache, the job the scheduler runs on the table of        *)
(* cached explanations.  Time is counted in whole steps.                     *)
(***************************************************************************)
\* Most rows in the table, and the last instant of the clock.
MaxRows == 3
MaxTime == 2

\* A row of repo_explanations.
Row(id, expires_at) == [id |-> id, explanation |-> "cached", expires_at |-> expires_at]

\* The tables of at most MaxRows rows, ids distinct.
Tables ==
    {{Row(id, expiry[id]) : id \in ids} :
        ids \in SUBSET (1..MaxRows), expiry \in [1..MaxRows -> 0..MaxTime]}

\* The filter with <= in place of <.
ExpiredOrDue(row, at) == row.expires_at <= at

\* RepoExplanation.expires_at < datetime.now(timezone.utc)
Expired(row, at) == row.expires_at < at

\* db.query(RepoExplanation).filter(...).delete(); db.commit()
DeleteExpired(table, at) == {row \in table : ~Expired(row, at)}

\* AsyncIOScheduler: its state, the jobs of its store, and the jobs added
\* before it was started.
Scheduler(state, jobs, pending) == [state |-> state, jobs |-> jobs, pending |-> pending]

\* scheduler.add_job(func, "interval", hours=6, id=job_id)
add_job(s, job_id) ==
    IF s.state = "stopped" THEN [s EXCEPT !.pending = @ \cup {job_id}]
    ELSE [s EXCEPT !.jobs = @ \cup {job_id}]

\* scheduler.start()
start(s) == Scheduler("running", s.jobs \cup s.pending, {})

\* scheduler.pause() in place of shutdown: the scheduler stays started.
pause(s) == [s EXCEPT !.state = "paused"]

\* scheduler.shutdown(wait=False)
shutdown(s) == [s EXCEPT !.state = "stopped"]

\* scheduler.running
running(s) == s.state # "stopped"

\* scheduler.get_job(job_id) is not None
has_job(s, job_id) == job_id \in s.jobs \cup s.pending

InitLifespan ==
    /\ l_pc = "startup"
    /\ scheduler = Scheduler("stopped", {}, {})
    /\ now \in 0..MaxTime
    /\ rows \in Tables
    /\ c_before = {}
    /\ c_now = 0
    /\ c_outcome = "none"
    /\ IdleExcept("app")

\* lifespan up to its yield: add the job, start the scheduler.
LifespanStartup ==
    /\ l_pc = "startup"
    /\ scheduler' = start(add_job(scheduler, "cleanup_cache"))
    /\ l_pc' = "serving"
    /\ UNCHANGED <<now, rows, c_before, c_now, c_outcome, offAppVars>>

\* lifespan after its yield.
LifespanShutdown ==
    /\ l_pc = "serving"
    /\ scheduler' = shutdown(scheduler)
    /\ l_pc' = "closed"
    /\ UNCHANGED <<now, rows, c_before, c_now, c_outcome, offAppVars>>

\* The clock advances.
Tick ==
    /\ now < MaxTime
    /\ now' = now + 1
    /\ UNCHANGED <<l_pc, scheduler, rows, c_before, c_now, c_outcome, offAppVars>>

\* The scheduler runs cleanup_expired_cache: the expired rows are deleted
\* and the deletion committed, or the database raises and the session is
\* rolled back.
CleanupExpiredCache ==
    /\ scheduler.state = "running"
    /\ "cleanup_cache" \in scheduler.jobs
    /\ c_before' = rows
    /\ c_now' = now
    /\ \E db_ok \in BOOLEAN :
         IF db_ok
         THEN rows' = DeleteExpired(rows, now) /\ c_outcome' = "committed"
         ELSE rows' = rows /\ c_outcome' = "rolled_back"
    /\ UNCHANGED <<l_pc, scheduler, now, offAppVars>>

NextLifespan ==
    \/ LifespanStartup
    \/ LifespanShutdown
    \/ Tick
    \/ CleanupExpiredCache

SpecLifespan == InitLifespan /\ [][NextLifespan]_vars

\* C19: after cleanup_expired_cache has deleted and committed, no row whose
\* expires_at is earlier than the time of the call remains, and every other
\* row of the table is still there, unchanged; nothing else is in the table.
\* (When the database raises instead, the rollback leaves the table as it
\* was.)
C19_CleanupDeletesExactlyExpired ==
    /\ c_outcome = "committed" =>
          /\ \A row \in rows : ~(row.expires_at < c_now)
          /\ \A row \in c_before : row.expires_at >= c_now => row \in rows
          /\ rows \subseteq c_before
    /\ c_outcome = "rolled_back" => rows = c_before

\* A table with a row expired, a row expiring at the very instant of the
\* call and a row expiring later: the first is deleted, the others kept.
C19_Witness ==
    /\ c_outcome = "committed"
    /\ c_now = 1
    /\ c_before = {Row(1, 0), Row(2, 1), Row(3, 2)}
    /\ rows = {Row(2, 1), Row(3, 2)}

\* C20: while the lifespan is active the scheduler is running and the job
\* cleanup_cache is registered; after the lifespan has shut down the
\* scheduler is not running.
C20_SchedulerFollowsLifespan ==
    /\ l_pc = "serving" => running(scheduler) /\ has_job(scheduler, "cleanup_cache")
    /\ l_pc = "closed" => ~running(scheduler)

\* The lifespan has shut down after the job ran at least once.
C20_Witness ==
    /\ l_pc = "closed"
    /\ scheduler.state = "stopped"
    /\ c_outcome = "committed"

====
